---- MODULE Spec2Model ----
(***************************************************************************)
(* Request handlers of core/views.py that drive the SOS alert lifecycle    *)
(* and the appointment / visit workflow, as a state machine over the       *)
(* relational store.  One action is one request: the role check, the       *)
(* lookup, the writes and the response (flash message level) together.     *)
(***************************************************************************)
EXTENDS Integers, Sequences, FiniteSets, Bags, TLC

\* ------------------------------------------------------------------ bounds
MaxAlerts == 1
MaxTime == 2
MaxAppointments == 2
MaxRequests == 2
MaxTasks == 2
MaxMessages == 2
MaxMoodLogs == 2
MaxTaskTime == 4
TicksPerMinute == 2

\* ------------------------------------------------------------------- users
Patients == {"p1", "p2"}
Doctors == {"d1", "d2"}
Therapists == {"t1"}
Users == Patients \cup Doctors \cup Therapists

\* request.user.role
role(u) == IF u \in Patients THEN "patient"
           ELSE IF u \in Doctors THEN "doctor" ELSE "therapist"

Methods == {"GET", "POST"}
Dates == {1, 2}

\* a DateTimeField that is still null (falsy in `not sos_alert.acknowledged_at`)
NoTime == 0

VARIABLES
    alerts,        \* SOSAlert table: alerts[id] is the row with primary key id
    appointments,  \* Appointment table: appointments[id]
    visits,        \* VisitRecord table: the bag of its rows (primary keys left out)
    now,           \* the clock read by timezone.now()
    resp,          \* the response to the last request
    tasks,         \* PatientTask table: tasks[id]
    messages,      \* Message table: messages[id], in the order of their timestamps
    moods,         \* MoodLog table, in creation order
    reqs           \* the requests in flight between their load and their save

vars == <<alerts, appointments, visits, now, resp, tasks, messages, moods, reqs>>

\* a response: the level and the text of its flash message (messages.error,
\* .warning, .success) and the view it redirects to; "404" is the not-found
\* page of get_object_or_404 and "render" a page rendered without a redirect
Response(m, t, to) == [msg |-> m, text |-> t, to |-> to]

NoResponse == Response("none", "", "none")
AccessDenied(to) == Response("error", "Access denied.", to)
NotFound == Response("404", "", "404")
Rendered == Response("render", "", "render")

\* redirect('doctor_dashboard') for a doctor, redirect('therapist_dashboard') otherwise
Dashboard(u) == IF role(u) = "doctor" THEN "doctor_dashboard" ELSE "therapist_dashboard"

\* ------------------------------------------------------------- SOS alerts

\* the column defaults of a new SOSAlert row (models.py): no acknowledgment, no
\* timestamp
SOSAlertDefaults ==
    [acknowledged_by_doctor |-> FALSE, acknowledged_by_therapist |-> FALSE,
     acknowledged_at |-> NoTime, resolved_at |-> NoTime]

\* SOSAlert.objects.create(patient=request.user, message=..., status='active')
NewAlert(u) ==
    [patient |-> u, status |-> "active",
     acknowledged_by_doctor |-> SOSAlertDefaults.acknowledged_by_doctor,
     acknowledged_by_therapist |-> SOSAlertDefaults.acknowledged_by_therapist,
     acknowledged_at |-> SOSAlertDefaults.acknowledged_at,
     resolved_at |-> SOSAlertDefaults.resolved_at]

send_sos_alert(u, method, message_text) ==
    /\ IF role(u) # "patient"
       THEN /\ resp' = AccessDenied("login")
            /\ UNCHANGED alerts
       ELSE IF method = "POST" /\ message_text
       THEN /\ Len(alerts) < MaxAlerts
            /\ alerts' = Append(alerts, NewAlert(u))
            /\ resp' = Response("success", "Emergency SOS alert sent", "patient_home")
       ELSE /\ resp' = Rendered
            /\ UNCHANGED alerts
    /\ UNCHANGED <<appointments, visits, now, tasks, messages, moods, reqs>>

\* the flag of the requester's role
SetFlag(a, r) ==
    IF r = "doctor" THEN [a EXCEPT !.acknowledged_by_doctor = TRUE]
    ELSE IF r = "therapist" THEN [a EXCEPT !.acknowledged_by_therapist = TRUE]
    ELSE a

\* JoinFlags with the join taken as "either flag"
JoinFlags_EitherFlag(a, t) ==
    IF a.acknowledged_by_doctor \/ a.acknowledged_by_therapist
    THEN [a EXCEPT !.status = "acknowledged", !.acknowledged_at = t]
    ELSE IF a.acknowledged_at = NoTime
    THEN [a EXCEPT !.acknowledged_at = t]
    ELSE a

\* status and acknowledged_at, from the two flags
JoinFlags(a, t) ==
    IF a.acknowledged_by_doctor /\ a.acknowledged_by_therapist
    THEN [a EXCEPT !.status = "acknowledged", !.acknowledged_at = t]
    ELSE IF a.acknowledged_at = NoTime
    THEN [a EXCEPT !.acknowledged_at = t]
    ELSE a

\* the row acknowledge_sos_alert saves, for a requester of role r at time t
AckAlert(a, r, t) == JoinFlags(SetFlag(a, r), t)

acknowledge_sos_alert(u, alert_id) ==
    /\ IF role(u) \notin {"doctor", "therapist"}
       THEN /\ resp' = AccessDenied("login")
            /\ UNCHANGED alerts
       ELSE IF alert_id \notin DOMAIN alerts
       THEN /\ resp' = NotFound
            /\ UNCHANGED alerts
       ELSE /\ alerts' = [alerts EXCEPT ![alert_id] = AckAlert(@, role(u), now)]
            /\ resp' = Response("success", "SOS alert acknowledged", Dashboard(u))
    /\ UNCHANGED <<appointments, visits, now, tasks, messages, moods, reqs>>

\* ResolveAlert that resolves only a jointly acknowledged alert
ResolveAlert_OnlyAcknowledged(a, t) ==
    IF a.acknowledged_by_doctor /\ a.acknowledged_by_therapist
    THEN [a EXCEPT !.status = "resolved", !.resolved_at = t]
    ELSE a

\* the row resolve_sos_alert saves at time t
ResolveAlert(a, t) == [a EXCEPT !.status = "resolved", !.resolved_at = t]

resolve_sos_alert(u, alert_id) ==
    /\ IF role(u) \notin {"doctor", "therapist"}
       THEN /\ resp' = AccessDenied("login")
            /\ UNCHANGED alerts
       ELSE IF alert_id \notin DOMAIN alerts
       THEN /\ resp' = NotFound
            /\ UNCHANGED alerts
       ELSE /\ alerts' = [alerts EXCEPT ![alert_id] = ResolveAlert(@, now)]
            /\ resp' = Response("success", "SOS alert resolved", Dashboard(u))
    /\ UNCHANGED <<appointments, visits, now, tasks, messages, moods, reqs>>

\* ------------------------------------------------- appointments and visits

\* the row book_appointment saves: the form's fields (doctor, date), then
\* patient = request.user and status = 'pending'.  The appointment branch of
\* patient_home (the routed view, views.py 206-214) saves the same row behind
\* the same role check.
NewAppointment(u, doctor, date) ==
    [patient |-> u, doctor |-> doctor, date |-> date, status |-> "pending"]

book_appointment(u, form) ==
    /\ IF role(u) # "patient"
       THEN /\ resp' = AccessDenied("login")
            /\ UNCHANGED appointments
       ELSE IF form.method = "POST" /\ form.is_valid
       THEN /\ Len(appointments) < MaxAppointments
            /\ appointments' = Append(appointments,
                                      NewAppointment(u, form.doctor, form.date))
            /\ resp' = Response("success", "Appointment request submitted.", "patient_home")
       ELSE /\ resp' = Rendered
            /\ UNCHANGED appointments
    /\ UNCHANGED <<alerts, visits, now, tasks, messages, moods, reqs>>


\* Found with the lookup by id alone: the appointment of any doctor
Found_AnyDoctor(u, appointment_id) == appointment_id \in DOMAIN appointments

\* get_object_or_404(Appointment, id=appointment_id, doctor=request.user) finds a row
Found(u, appointment_id) ==
    /\ appointment_id \in DOMAIN appointments
    /\ appointments[appointment_id].doctor = u

\* IsPending that only refuses a cancelled appointment
IsPending_NotCancelled(a) == a.status # "cancelled"

\* the guard of confirm_appointment
IsPending(a) == a.status = "pending"

confirm_appointment(u, appointment_id) ==
    /\ IF role(u) # "doctor"
       THEN /\ resp' = AccessDenied("doctor_dashboard")
            /\ UNCHANGED appointments
       ELSE IF ~Found(u, appointment_id)
       THEN /\ resp' = NotFound
            /\ UNCHANGED appointments
       ELSE IF IsPending(appointments[appointment_id])
       THEN /\ appointments' = [appointments EXCEPT ![appointment_id].status = "confirmed"]
            /\ resp' = Response("success", "Appointment confirmed.", "doctor_dashboard")
       ELSE /\ resp' = Response("warning", "This appointment is not pending.",
                             "doctor_dashboard")
            /\ UNCHANGED appointments
    /\ UNCHANGED <<alerts, visits, now, tasks, messages, moods, reqs>>

\* CancelAppointment with the guard confirm_appointment has
CancelAppointment_OnlyPending(a) ==
    IF a.status = "pending" THEN [a EXCEPT !.status = "cancelled"] ELSE a

\* the row cancel_appointment saves
CancelAppointment(a) == [a EXCEPT !.status = "cancelled"]

cancel_appointment(u, appointment_id) ==
    /\ IF role(u) # "doctor"
       THEN /\ resp' = AccessDenied("doctor_dashboard")
            /\ UNCHANGED appointments
       ELSE IF ~Found(u, appointment_id)
       THEN /\ resp' = NotFound
            /\ UNCHANGED appointments
       ELSE /\ appointments' = [appointments EXCEPT
                                  ![appointment_id] = CancelAppointment(@)]
            /\ resp' = Response("warning", "Appointment cancelled.", "doctor_dashboard")
    /\ UNCHANGED <<alerts, visits, now, tasks, messages, moods, reqs>>

\* visit_exists with the filter patient=request.user
visit_exists_WrongPatient(u, a) ==
    \E v \in BagToSet(visits) :
        /\ v.doctor = u
        /\ v.patient = u
        /\ v.visit_date = a.date

\* visit_exists without the query: no record is ever found
visit_exists_Never(u, a) == FALSE

\* VisitRecord.objects.filter(doctor=, patient=, visit_date=).exists()
visit_exists(u, a) ==
    \E v \in BagToSet(visits) :
        /\ v.doctor = u
        /\ v.patient = a.patient
        /\ v.visit_date = a.date

\* NewVisitRecord with patient=request.user
NewVisitRecord_PatientIsUser(u, a) ==
    [doctor |-> u, patient |-> u, visit_date |-> a.date,
     current_status |-> "pending"]

\* the row VisitRecord.objects.create(...) inserts
NewVisitRecord(u, a) ==
    [doctor |-> u, patient |-> a.patient, visit_date |-> a.date,
     current_status |-> "pending"]

log_visit_by_id(u, appointment_id) ==
    /\ IF role(u) # "doctor"
       THEN /\ resp' = AccessDenied("doctor_dashboard")
            /\ UNCHANGED <<appointments, visits>>
       ELSE IF ~Found(u, appointment_id)
       THEN /\ resp' = NotFound
            /\ UNCHANGED <<appointments, visits>>
       ELSE IF visit_exists(u, appointments[appointment_id])
       THEN /\ resp' = Response("warning", "Visit already logged for this appointment.",
                             "doctor_dashboard")
            /\ UNCHANGED <<appointments, visits>>
       ELSE /\ visits' = visits (+) SetToBag({NewVisitRecord(u, appointments[appointment_id])})
            /\ appointments' = [appointments EXCEPT ![appointment_id].status = "completed"]
            /\ resp' = Response("success", "Visit recorded successfully.", "doctor_dashboard")
    /\ UNCHANGED <<alerts, now, tasks, messages, moods, reqs>>

\* ------------------------------------------------------------ task timer

\* the column defaults of a new PatientTask row (models.py): not completed, no
\* duration; no constraint of the table limits the in_progress rows of a patient
PatientTaskDefaults == [completed_at |-> NoTime, duration_minutes |-> NoTime]

\* the row start_task and the task branch of patient_home save
NewTask(u, t) ==
    [patient |-> u, status |-> "in_progress", started_at |-> t,
     completed_at |-> PatientTaskDefaults.completed_at,
     duration_minutes |-> PatientTaskDefaults.duration_minutes]

start_task(u, method, is_valid) ==
    /\ IF role(u) # "patient"
       THEN /\ resp' = Response("none", "", "login")
            /\ UNCHANGED tasks
       ELSE IF method = "POST" /\ is_valid
       THEN /\ Len(tasks) < MaxTasks
            /\ tasks' = Append(tasks, NewTask(u, now))
            /\ resp' = Response("success", "Task started.", "patient_home")
       ELSE /\ resp' = Rendered
            /\ UNCHANGED tasks
    /\ UNCHANGED <<alerts, appointments, visits, now, messages, moods, reqs>>

\* patient_home: a POST with 'task_type' starts a task, any other POST submits an
\* appointment
patient_home(u, form) ==
    /\ IF role(u) # "patient"
       THEN /\ resp' = AccessDenied("login")
            /\ UNCHANGED <<tasks, appointments>>
       ELSE IF form.method = "POST" /\ form.task_type /\ form.is_valid
       THEN /\ Len(tasks) < MaxTasks
            /\ tasks' = Append(tasks, NewTask(u, now))
            /\ resp' = Response("success", "Task started successfully.", "patient_home")
            /\ UNCHANGED appointments
       ELSE IF form.method = "POST" /\ ~form.task_type /\ form.is_valid
       THEN /\ Len(appointments) < MaxAppointments
            /\ appointments' = Append(appointments,
                                      NewAppointment(u, form.doctor, form.date))
            /\ resp' = Response("success", "Appointment request submitted.", "patient_home")
            /\ UNCHANGED tasks
       ELSE /\ resp' = Rendered
            /\ UNCHANGED <<tasks, appointments>>
    /\ UNCHANGED <<alerts, visits, now, messages, moods, reqs>>

\* Python's round() of n / d: to the nearest integer, a tie to the even one
RoundHalfEven(n, d) ==
    LET q == n \div d
        r == n % d
    IN  IF 2 * r < d THEN q
        ELSE IF 2 * r > d THEN q + 1
        ELSE IF q % 2 = 0 THEN q ELSE q + 1

\* Duration with the minutes truncated
Duration_Floor(started_at, t) ==
    IF started_at # NoTime
    THEN LET m == (t - started_at) \div TicksPerMinute
         IN  IF m > 1 THEN m ELSE 1
    ELSE 1

\* max(1, round((now - started_at).total_seconds() / 60)), or 1 without a start
Duration(started_at, t) ==
    IF started_at # NoTime
    THEN LET m == RoundHalfEven(t - started_at, TicksPerMinute)
         IN  IF m > 1 THEN m ELSE 1
    ELSE 1

\* InProgress that only refuses a task not yet started
InProgress_NotPending(t) == t.status # "pending"

\* the guard of complete_task
InProgress(t) == t.status = "in_progress"

complete_task(u, task_id) ==
    /\ IF role(u) # "patient"
       THEN /\ resp' = AccessDenied("login")
            /\ UNCHANGED tasks
       ELSE IF task_id \notin DOMAIN tasks \/ tasks[task_id].patient # u
       THEN /\ resp' = NotFound
            /\ UNCHANGED tasks
       ELSE IF InProgress(tasks[task_id])
       THEN /\ tasks' = [tasks EXCEPT ![task_id] =
                           [@ EXCEPT !.duration_minutes = Duration(tasks[task_id].started_at, now),
                                     !.completed_at = now,
                                     !.status = "completed"]]
            /\ resp' = Response("success", "Task completed.", "patient_home")
       ELSE /\ resp' = Response("warning", "Task is not currently in progress or already completed.",
                             "patient_home")
            /\ UNCHANGED tasks
    /\ UNCHANGED <<alerts, appointments, visits, now, messages, moods, reqs>>

\* time passes between two requests of the task timer
TaskTick ==
    /\ now < MaxTaskTime
    /\ now' = now + 1
    /\ UNCHANGED <<alerts, appointments, visits, resp, tasks, messages, moods, reqs>>

\* ---------------------------------------------------------------- messages

\* the column default of a new Message row (models.py): not deleted
MessageDefaults == [is_deleted |-> FALSE]

\* the answer of a JSON view: JsonResponse({'status': status})
Json(status) == Response("none", status, "json")

\* the row send_message creates
NewMessage(u, receiver) ==
    [sender |-> u, receiver |-> receiver, is_deleted |-> MessageDefaults.is_deleted]

\* receiver_id names a user or nobody; content is empty or not
send_message(u, method, receiver_id, has_content) ==
    /\ IF method # "POST"
       THEN /\ resp' = Json("error")
            /\ UNCHANGED messages
       ELSE IF receiver_id \notin Users
       THEN /\ resp' = NotFound
            /\ UNCHANGED messages
       ELSE /\ IF has_content
               THEN /\ Len(messages) < MaxMessages
                    /\ messages' = Append(messages, NewMessage(u, receiver_id))
               ELSE UNCHANGED messages
            /\ resp' = Json("success")
    /\ UNCHANGED <<alerts, appointments, visits, now, tasks, moods, reqs>>

\* get_object_or_404(Message, id=message_id) without the sender
OwnMessage_AnySender(u, message_id) == message_id \in DOMAIN messages

\* get_object_or_404(Message, id=message_id, sender=request.user)
OwnMessage(u, message_id) ==
    message_id \in DOMAIN messages /\ messages[message_id].sender = u

delete_message(u, message_id) ==
    /\ IF ~OwnMessage(u, message_id)
       THEN /\ resp' = NotFound
            /\ UNCHANGED messages
       ELSE /\ messages' = [messages EXCEPT ![message_id].is_deleted = TRUE]
            /\ resp' = Json("deleted")
    /\ UNCHANGED <<alerts, appointments, visits, now, tasks, moods, reqs>>

\* Conversation that keeps the deleted messages
Conversation_WithDeleted(msgs, u, selected_user) ==
    LET InConversation(i) ==
            /\ msgs[i].sender \in {u, selected_user}
            /\ msgs[i].receiver \in {u, selected_user}
    IN  SelectSeq([i \in 1..Len(msgs) |-> i], InConversation)

\* the query of message_box, as the ids of its rows in timestamp order
Conversation(msgs, u, selected_user) ==
    LET InConversation(i) ==
            /\ msgs[i].sender \in {u, selected_user}
            /\ msgs[i].receiver \in {u, selected_user}
            /\ ~msgs[i].is_deleted
    IN  SelectSeq([i \in 1..Len(msgs) |-> i], InConversation)

\* message_box renders the conversation with the selected user, or none when the
\* 'user' parameter names nobody
message_box(u, selected_user_id) ==
    /\ resp' = [msg |-> "render", text |-> "", to |-> "message_box",
                messages |-> IF selected_user_id \in Users
                             THEN Conversation(messages, u, selected_user_id)
                             ELSE <<>>]
    /\ UNCHANGED <<alerts, appointments, visits, now, tasks, messages, moods, reqs>>

\* --------------------------------------------------------------- mood logs

\* log_mood: no role check; a POST with a mood creates a MoodLog for the requester
log_mood(u, method, mood) ==
    /\ IF method = "POST" /\ mood # ""
       THEN /\ Len(moods) < MaxMoodLogs
            /\ moods' = Append(moods, [patient |-> u, mood |-> mood])
       ELSE UNCHANGED moods
    /\ resp' = Response("none", "", "patient_profile")
    /\ UNCHANGED <<alerts, appointments, visits, now, tasks, messages, reqs>>

\* ------------------------------------------------ requests that interleave

\* the slots of the requests that can be in flight at once
Requests == 1..MaxRequests

\* a slot no request has taken yet
Idle == [pc |-> "idle"]

\* a request between its load of a row and its save: the view, the requester,
\* the primary key and the copy of the row the view holds
Loaded(view, u, id, row) ==
    [pc |-> "loaded", view |-> view, user |-> u, id |-> id, row |-> row]

\* a request that has been answered
Done(r) == [pc |-> "done", view |-> r.view, user |-> r.user, id |-> r.id]

\* the two views that load an SOSAlert, change their copy and save it
SOSViews == {"acknowledge_sos_alert", "resolve_sos_alert"}

\* the first half of acknowledge_sos_alert and resolve_sos_alert: the role check
\* and sos_alert = get_object_or_404(SOSAlert, id=alert_id)
sos_alert_get(p, view, u, alert_id) ==
    /\ reqs[p] = Idle
    /\ IF role(u) \notin {"doctor", "therapist"}
       THEN /\ resp' = AccessDenied("login")
            /\ UNCHANGED reqs
       ELSE IF alert_id \notin DOMAIN alerts
       THEN /\ resp' = NotFound
            /\ UNCHANGED reqs
       ELSE /\ reqs' = [reqs EXCEPT ![p] = Loaded(view, u, alert_id, alerts[alert_id])]
            /\ UNCHANGED resp
    /\ UNCHANGED <<alerts, appointments, visits, now, tasks, messages, moods>>

\* the second half: the view changes its copy and sos_alert.save() writes every
\* column of the copy over the row
sos_alert_save(p) ==
    /\ reqs[p].pc = "loaded"
    /\ reqs[p].view \in SOSViews
    /\ LET r == reqs[p]
           row == IF r.view = "acknowledge_sos_alert"
                  THEN AckAlert(r.row, role(r.user), now)
                  ELSE ResolveAlert(r.row, now)
       IN  /\ alerts' = [alerts EXCEPT ![r.id] = row]
           /\ resp' = Response("success",
                               IF r.view = "acknowledge_sos_alert"
                               THEN "SOS alert acknowledged" ELSE "SOS alert resolved",
                               Dashboard(r.user))
           /\ reqs' = [reqs EXCEPT ![p] = Done(r)]
    /\ UNCHANGED <<appointments, visits, now, tasks, messages, moods>>


\* a log_visit_by_id request between its pre-check and its create: the copy of
\* the appointment it holds and the answer of the pre-check
Checked(u, id, row, exists) ==
    [pc |-> "checked", view |-> "log_visit_by_id", user |-> u, id |-> id,
     row |-> row, visit_exists |-> exists]

\* the VisitRecord table after an insert: the table (models.py) has no unique
\* constraint, the pre-check is the only guard
InsertVisitRecord(vs, v) == vs (+) SetToBag({v})

\* the first half of log_visit_by_id: the role check, the lookup of the
\* appointment and the pre-check
log_visit_check(p, u, appointment_id) ==
    /\ reqs[p] = Idle
    /\ IF role(u) # "doctor"
       THEN /\ resp' = AccessDenied("doctor_dashboard")
            /\ UNCHANGED reqs
       ELSE IF ~Found(u, appointment_id)
       THEN /\ resp' = NotFound
            /\ UNCHANGED reqs
       ELSE /\ reqs' = [reqs EXCEPT ![p] =
                          Checked(u, appointment_id, appointments[appointment_id],
                                  visit_exists(u, appointments[appointment_id]))]
            /\ UNCHANGED resp
    /\ UNCHANGED <<alerts, appointments, visits, now, tasks, messages, moods>>

\* the second half: the warning when the pre-check found a record, else the
\* create and appointment.save() of the copy with status completed
log_visit_create(p) ==
    /\ reqs[p].pc = "checked"
    /\ LET r == reqs[p]
       IN  /\ IF r.visit_exists
              THEN /\ resp' = Response("warning",
                                       "Visit already logged for this appointment.",
                                       "doctor_dashboard")
                   /\ UNCHANGED <<appointments, visits>>
              ELSE /\ visits' = InsertVisitRecord(visits, NewVisitRecord(r.user, r.row))
                   /\ appointments' = [appointments EXCEPT ![r.id] =
                                          [r.row EXCEPT !.status = "completed"]]
                   /\ resp' = Response("success", "Visit recorded successfully.",
                                       "doctor_dashboard")
           /\ reqs' = [reqs EXCEPT ![p] = Done(r)]
    /\ UNCHANGED <<alerts, now, tasks, messages, moods>>

\* time passes between two requests
Tick ==
    /\ now < MaxTime
    /\ now' = now + 1
    /\ UNCHANGED <<alerts, appointments, visits, resp, tasks, messages, moods, reqs>>

Init ==
    /\ alerts = <<>>
    /\ appointments = <<>>
    /\ visits = EmptyBag
    /\ now = 1
    /\ resp = NoResponse
    /\ tasks = <<>>
    /\ messages = <<>>
    /\ moods = <<>>
    /\ reqs = [p \in Requests |-> Idle]

AlertIds == 1..MaxAlerts

NextSOS ==
    \/ \E u \in Users, m \in Methods, t \in BOOLEAN : send_sos_alert(u, m, t)
    \/ \E u \in Users, i \in AlertIds : acknowledge_sos_alert(u, i)
    \/ \E u \in Users, i \in AlertIds : resolve_sos_alert(u, i)
    \/ Tick

SpecSOS == Init /\ [][NextSOS]_vars

AppointmentIds == 1..MaxAppointments

\* the (doctor, date) pairs a valid form is drawn from: two dates of one doctor,
\* and a date that two doctors share
Slots == {<<"d1", 1>>, <<"d1", 2>>, <<"d2", 1>>}

\* the requests book_appointment can get: a GET, a POST whose AppointmentForm is
\* invalid, or a POST whose form holds a doctor and a date
AppointmentForms ==
    {[method |-> "GET", is_valid |-> FALSE, doctor |-> "d1", date |-> 1],
     [method |-> "POST", is_valid |-> FALSE, doctor |-> "d1", date |-> 1]}
    \cup {[method |-> "POST", is_valid |-> TRUE, doctor |-> s[1], date |-> s[2]] :
             s \in Slots}

\* the appointment submits of patient_home: a POST without 'task_type' whose
\* AppointmentForm holds a doctor and a date
HomeAppointmentForms ==
    {[method |-> "POST", task_type |-> FALSE, is_valid |-> TRUE,
      doctor |-> s[1], date |-> s[2]] : s \in Slots}

NextAppt ==
    \/ \E u \in Users, f \in AppointmentForms : book_appointment(u, f)
    \/ \E u \in Users, f \in HomeAppointmentForms : patient_home(u, f)
    \/ \E u \in Users, i \in AppointmentIds : confirm_appointment(u, i)
    \/ \E u \in Users, i \in AppointmentIds : cancel_appointment(u, i)
    \/ \E u \in Users, i \in AppointmentIds : log_visit_by_id(u, i)

SpecAppt == Init /\ [][NextAppt]_vars

TaskIds == 1..MaxTasks

\* the requests patient_home can get that do not submit an appointment
HomeTaskForms ==
    {[method |-> "GET", task_type |-> FALSE, is_valid |-> FALSE, doctor |-> "d1", date |-> 1],
     [method |-> "POST", task_type |-> TRUE, is_valid |-> FALSE, doctor |-> "d1", date |-> 1],
     [method |-> "POST", task_type |-> TRUE, is_valid |-> TRUE, doctor |-> "d1", date |-> 1]}

NextTask ==
    \/ \E u \in Users, m \in Methods, ok \in BOOLEAN : start_task(u, m, ok)
    \/ \E u \in Users, f \in HomeTaskForms : patient_home(u, f)
    \/ \E u \in Users, i \in TaskIds : complete_task(u, i)
    \/ TaskTick

SpecTask == Init /\ [][NextTask]_vars

MessageIds == 1..MaxMessages

\* the users whose requests the messaging model follows: one of each role
Correspondents == {"p1", "d1", "t1"}

\* the values of receiver_id and of the 'user' parameter: a user, or nobody
UserIds == Correspondents \cup {"nobody"}

NextMsg ==
    \/ \E u \in Correspondents, m \in Methods, r \in UserIds, c \in BOOLEAN :
          send_message(u, m, r, c)
    \/ \E u \in Correspondents, i \in MessageIds : delete_message(u, i)
    \/ \E u \in Correspondents, sel \in UserIds : message_box(u, sel)

SpecMsg == Init /\ [][NextMsg]_vars

\* the values of the 'mood' field: missing or empty, or a mood
MoodInputs == {"", "happy", "sad"}

NextMood == \E u \in Users, m \in Methods, mood \in MoodInputs : log_mood(u, m, mood)

SpecMood == Init /\ [][NextMood]_vars

\* the staff whose requests interleave: a doctor and a therapist
Staff == {"d1", "t1"}

NextSOSRace ==
    \/ \E u \in Patients : send_sos_alert(u, "POST", TRUE)
    \/ \E p \in Requests, view \in SOSViews, u \in Staff \cup {"p1"}, i \in AlertIds :
          sos_alert_get(p, view, u, i)
    \/ \E p \in Requests : sos_alert_save(p)
    \/ Tick

SpecSOSRace == Init /\ [][NextSOSRace]_vars

\* the valid bookings the interleaving model starts from
ValidForms == {f \in AppointmentForms : f.method = "POST" /\ f.is_valid}

NextVisitRace ==
    \/ \E u \in Patients, f \in ValidForms : book_appointment(u, f)
    \/ \E p \in Requests, u \in Doctors \cup {"p1"}, i \in AppointmentIds :
          log_visit_check(p, u, i)
    \/ \E p \in Requests : log_visit_create(p)

SpecVisitRace == Init /\ [][NextVisitRace]_vars

\* ---------------------------------------------------- SOS alert lifecycle

BothFlags(a) == a.acknowledged_by_doctor /\ a.acknowledged_by_therapist

\* C1: an alert is created active with both flags false; a doctor's
\* acknowledge_sos_alert sets the doctor's flag and leaves the therapist's flag
\* as it was, and the other way round; no other request sets a flag; an
\* acknowledgment that leaves both flags true leaves the status acknowledged,
\* one that leaves a flag false leaves the status as it was; and the status is
\* acknowledged only with both flags true.  Hence the status is acknowledged
\* after a doctor and a therapist have acknowledged, in either order, and
\* never after acknowledgments of one role alone.
C1_JointAcknowledgment ==
    [][/\ Len(alerts') > Len(alerts) =>
            LET n == alerts'[Len(alerts')] IN
            n.status = "active" /\ ~n.acknowledged_by_doctor
                                /\ ~n.acknowledged_by_therapist
       /\ \A i \in DOMAIN alerts :
            LET a == alerts[i]
                b == alerts'[i]
            IN  /\ \A u \in Doctors : acknowledge_sos_alert(u, i) =>
                     /\ b.acknowledged_by_doctor
                     /\ b.acknowledged_by_therapist = a.acknowledged_by_therapist
                /\ \A u \in Therapists : acknowledge_sos_alert(u, i) =>
                     /\ b.acknowledged_by_therapist
                     /\ b.acknowledged_by_doctor = a.acknowledged_by_doctor
                /\ \A u \in Doctors \cup Therapists : acknowledge_sos_alert(u, i) =>
                     IF BothFlags(b) THEN b.status = "acknowledged"
                                     ELSE b.status = a.status
                /\ b.acknowledged_by_doctor # a.acknowledged_by_doctor =>
                     \E u \in Doctors : acknowledge_sos_alert(u, i)
                /\ b.acknowledged_by_therapist # a.acknowledged_by_therapist =>
                     \E u \in Therapists : acknowledge_sos_alert(u, i)
                /\ b.status = "acknowledged" => BothFlags(b)
      ]_vars

\* an alert that both roles have acknowledged, right after the second of them
C1_Witness ==
    /\ resp.text = "SOS alert acknowledged"
    /\ \E i \in DOMAIN alerts :
         BothFlags(alerts[i]) /\ alerts[i].status = "acknowledged"

\* C2: a resolved alert stays resolved under every request.
C2_ResolvedIsTerminal ==
    [][\A i \in DOMAIN alerts :
         alerts[i].status = "resolved" => alerts'[i].status = "resolved"]_vars

\* C3: once acknowledged_at is set, no acknowledge_sos_alert request changes it.
C3_AcknowledgedAtSetOnce ==
    [][\A i \in DOMAIN alerts, u \in Users :
         acknowledge_sos_alert(u, i) /\ alerts[i].acknowledged_at # NoTime =>
           alerts'[i].acknowledged_at = alerts[i].acknowledged_at]_vars

\* C4: resolve_sos_alert by a doctor or a therapist on an active or acknowledged
\* alert leaves it resolved with resolved_at set (to the time of the request),
\* whatever its flags, and changes neither its flags nor another alert; the
\* request of a patient changes no alert.
C4_ResolveAlwaysResolves ==
    [][\A i \in DOMAIN alerts, u \in Users :
         resolve_sos_alert(u, i) =>
           LET a == alerts[i]
               b == alerts'[i]
           IN  IF role(u) = "patient"
               THEN alerts' = alerts /\ resp'.msg = "error"
               ELSE /\ a.status \in {"active", "acknowledged"} =>
                         /\ b.status = "resolved"
                         /\ b.resolved_at # NoTime
                         /\ b.resolved_at = now
                    /\ b.acknowledged_by_doctor = a.acknowledged_by_doctor
                    /\ b.acknowledged_by_therapist = a.acknowledged_by_therapist
                    /\ \A j \in DOMAIN alerts : j # i => alerts'[j] = alerts[j]
      ]_vars

\* an alert resolved straight from active, no flag set
C4_Witness ==
    /\ resp.text = "SOS alert resolved"
    /\ \E i \in DOMAIN alerts :
         /\ alerts[i].status = "resolved"
         /\ alerts[i].resolved_at # NoTime
         /\ ~alerts[i].acknowledged_by_doctor
         /\ ~alerts[i].acknowledged_by_therapist

\* ------------------------------------------- appointment / visit workflow

RECURSIVE SumCopies(_, _)
SumCopies(S, B) ==
    IF S = {} THEN 0
    ELSE LET x == CHOOSE y \in S : TRUE
         IN  CopiesIn(x, B) + SumCopies(S \ {x}, B)

\* the number of VisitRecords of the table vs with the doctor, patient and date
\* of appointment a
VisitsFor(vs, a) ==
    SumCopies({v \in BagToSet(vs) : /\ v.doctor = a.doctor
                                    /\ v.patient = a.patient
                                    /\ v.visit_date = a.date}, vs)

\* C5: the only status changes of an appointment are pending to confirmed,
\* pending to cancelled and confirmed to completed.
C5_OneDirectional ==
    [][\A i \in DOMAIN appointments :
         LET s == appointments[i].status
             t == appointments'[i].status
         IN  \/ s = t
             \/ <<s, t>> \in {<<"pending", "confirmed">>, <<"pending", "cancelled">>,
                              <<"confirmed", "completed">>}]_vars

\* C6: an appointment becomes completed only from confirmed.
C6_CompletedOnlyFromConfirmed ==
    [][\A i \in DOMAIN appointments :
         appointments'[i].status = "completed" /\ appointments[i].status # "completed"
           => appointments[i].status = "confirmed"]_vars

\* a VisitRecord with the doctor, patient and date of appointment a is in vs
HasVisit(vs, a) ==
    \E v \in BagToSet(vs) : /\ v.doctor = a.doctor
                            /\ v.patient = a.patient
                            /\ v.visit_date = a.date

\* C7: log_visit_by_id, requested by the appointment's doctor for an
\* appointment for which a VisitRecord with its doctor, patient and date
\* exists, is answered with a warning and changes no appointment and no
\* VisitRecord.
C7_DuplicateVisitRejected ==
    [][\A i \in DOMAIN appointments :
         LET a == appointments[i]
         IN  HasVisit(visits, a) /\ log_visit_by_id(a.doctor, i) =>
               /\ appointments' = appointments
               /\ visits' = visits
               /\ resp'.msg = "warning"]_vars

\* a second log_visit_by_id was answered "already logged"
C7_Witness ==
    /\ resp.text = "Visit already logged for this appointment."
    /\ \E i \in DOMAIN appointments : VisitsFor(visits, appointments[i]) = 1

\* C8 as claimed: log_visit_by_id by the appointment's doctor always leaves the
\* appointment completed with exactly one VisitRecord of its doctor, patient
\* and date.
C8_LogVisitAlwaysCompletes ==
    [][\A i \in DOMAIN appointments :
         LET a == appointments[i]
         IN  log_visit_by_id(a.doctor, i) =>
               /\ appointments'[i].status = "completed"
               /\ VisitsFor(visits', a) = 1]_vars

\* C8, amended: log_visit_by_id by the appointment's doctor, when no VisitRecord
\* with the appointment's doctor, patient and date exists, creates exactly one
\* and sets that appointment (and no other) to completed; when one exists, as
\* for a second appointment of the same patient, doctor and date, it creates
\* nothing and leaves every appointment as it was.
C8_LogVisitUnlessRecorded ==
    [][\A i \in DOMAIN appointments :
         LET a == appointments[i]
         IN  log_visit_by_id(a.doctor, i) =>
               IF ~HasVisit(visits, a)
               THEN /\ appointments' = [appointments EXCEPT ![i].status = "completed"]
                    /\ VisitsFor(visits', a) = 1
                    /\ BagCardinality(visits') = BagCardinality(visits) + 1
               ELSE /\ appointments' = appointments
                    /\ visits' = visits]_vars

\* two appointments of one patient, doctor and date: the first logged and
\* completed, the second refused
C8_Witness ==
    /\ resp.text = "Visit already logged for this appointment."
    /\ \E i, j \in DOMAIN appointments :
         /\ i # j
         /\ appointments[i].doctor = appointments[j].doctor
         /\ appointments[i].patient = appointments[j].patient
         /\ appointments[i].date = appointments[j].date
         /\ appointments[i].status = "completed"
         /\ appointments[j].status # "completed"
         /\ VisitsFor(visits, appointments[j]) = 1

\* C9: confirm_appointment, requested by the appointment's doctor, on an
\* appointment that is not pending changes no appointment and is answered with
\* a warning; on a pending appointment it sets the status to confirmed.
C9_ConfirmOnlyPending ==
    [][\A i \in DOMAIN appointments :
         LET a == appointments[i]
         IN  confirm_appointment(a.doctor, i) =>
               IF a.status # "pending"
               THEN appointments' = appointments /\ resp'.msg = "warning"
               ELSE appointments' = [appointments EXCEPT ![i].status = "confirmed"]
      ]_vars

\* a confirm request on a completed appointment was answered with the warning
C9_Witness ==
    /\ resp.msg = "warning"
    /\ resp.text = "This appointment is not pending."
    /\ \E i \in DOMAIN appointments : appointments[i].status = "completed"

\* C10: cancel_appointment by the appointment's doctor sets the status to
\* cancelled from every status.
C10_CancelUnconditional ==
    [][\A i \in DOMAIN appointments :
         cancel_appointment(appointments[i].doctor, i) =>
           appointments' = [appointments EXCEPT ![i].status = "cancelled"]]_vars

\* the only appointment was completed by a logged visit, then cancelled
C10_Witness ==
    /\ resp.text = "Appointment cancelled."
    /\ Len(appointments) = 1
    /\ appointments[1].status = "cancelled"
    /\ VisitsFor(visits, appointments[1]) = 1


\* --------------------------------------------------------------- task timer

\* C11: complete_task on an in_progress task started at T0 and completed at now
\* leaves it completed with completed_at = now and duration_minutes = max(1, the
\* elapsed minutes rounded to a whole minute): never below 1, and 2 for ninety
\* seconds. No other step writes duration_minutes, and a new task has none.
C11_DurationAtCompletion ==
    [][/\ \A i \in DOMAIN tasks :
            LET t == tasks[i]
                e == now - t.started_at
                d == tasks'[i].duration_minutes
            IN  /\ (t.status = "in_progress" /\ complete_task(t.patient, i)) =>
                      /\ tasks'[i].status = "completed"
                      /\ tasks'[i].completed_at = now
                      /\ tasks'[i].started_at = t.started_at
                      /\ d >= 1
                      /\ \E m \in 0..(e + 1) :
                            /\ 2 * m * TicksPerMinute <= 2 * e + TicksPerMinute
                            /\ 2 * m * TicksPerMinute >= 2 * e - TicksPerMinute
                            /\ d = IF m > 1 THEN m ELSE 1
                      /\ (2 * e = 3 * TicksPerMinute => d = 2)
                /\ d # t.duration_minutes =>
                      t.status = "in_progress" /\ complete_task(t.patient, i)
       /\ \A i \in DOMAIN tasks' \ DOMAIN tasks :
            tasks'[i].duration_minutes = PatientTaskDefaults.duration_minutes
      ]_vars

\* a task completed a minute and a half after its start, with a duration of 2
C11_Witness ==
    \E i \in DOMAIN tasks :
        /\ tasks[i].status = "completed"
        /\ 2 * (tasks[i].completed_at - tasks[i].started_at) = 3 * TicksPerMinute
        /\ tasks[i].duration_minutes = 2

\* C12: complete_task by the owner on a task that is not in_progress changes no
\* task (status, started_at, completed_at and duration_minutes stay) and answers
\* with a warning, so a second completion keeps the values of the first.
C12_CompleteOnlyInProgress ==
    [][\A i \in DOMAIN tasks :
          LET t == tasks[i]
          IN  (t.status # "in_progress" /\ complete_task(t.patient, i)) =>
                  /\ tasks' = tasks
                  /\ resp'.msg = "warning"
      ]_vars

\* a completed task whose owner asked to complete it again, later
C12_Witness ==
    /\ resp.msg = "warning"
    /\ \E i \in DOMAIN tasks :
          /\ tasks[i].status = "completed"
          /\ tasks[i].completed_at < now
          /\ tasks[i].duration_minutes = Duration(tasks[i].started_at, tasks[i].completed_at)

\* C18: requests handled one after the other leave a patient at most one
\* in_progress task.
C18_OneInProgressPerPatient ==
    \A p \in Patients :
        Cardinality({i \in DOMAIN tasks :
                        tasks[i].patient = p /\ tasks[i].status = "in_progress"}) <= 1


\* ----------------------------------------------------------------- messages

\* the ids a sequence of ids holds
Ids(seq) == {seq[k] : k \in DOMAIN seq}

\* C13: delete_message by a user who is not the sender is answered not found
\* and leaves the message as it was; by the sender it sets is_deleted and keeps
\* the row, and from then on no conversation query of message_box, by either
\* party, returns the message.
C13_SoftDeleteBySender ==
    [][/\ \A i \in DOMAIN messages : \A u \in Correspondents :
            delete_message(u, i) =>
                IF u # messages[i].sender
                THEN messages' = messages /\ resp' = NotFound
                ELSE /\ messages' = [messages EXCEPT ![i].is_deleted = TRUE]
                     /\ resp' = Json("deleted")
       /\ \A i \in DOMAIN messages :
            messages[i].is_deleted =>
                /\ i \in DOMAIN messages'
                /\ messages'[i] = messages[i]
                /\ \A u \in Correspondents, sel \in Correspondents :
                      i \notin Ids(Conversation(messages', u, sel))
                /\ resp'.to = "message_box" => i \notin Ids(resp'.messages)
      ]_vars

\* the sender has deleted one of two messages of a conversation and message_box
\* has answered with the other one alone
C13_Witness ==
    /\ resp.to = "message_box"
    /\ \E i, j \in DOMAIN messages :
          /\ messages[i].is_deleted
          /\ ~messages[j].is_deleted
          /\ messages[j].sender = messages[i].receiver
          /\ messages[j].receiver = messages[i].sender
          /\ messages[i].sender # messages[i].receiver
          /\ resp.messages = <<j>>


\* ------------------------------------------------------------- role checks

\* C14: a request to a state-changing handler by a user of the wrong role
\* changes no persisted state and is answered with a redirect to login; here
\* for log_mood, whose role is the patient.
C14_WrongRoleRejected ==
    [][\A u \in Users \ Patients, m \in Methods, mood \in MoodInputs :
          log_mood(u, m, mood) => moods' = moods /\ resp'.to = "login"
      ]_vars


\* ------------------------------------------------- repeated acknowledgment

\* C17: for every reachable alert and either role, a second acknowledgment by
\* the role that has just acknowledged, now or later, leaves status, both flags,
\* acknowledged_at and resolved_at exactly as the first one left them.
C17_AcknowledgeIdempotent ==
    \A i \in DOMAIN alerts, r \in {"doctor", "therapist"}, t \in now..MaxTime :
        AckAlert(AckAlert(alerts[i], r, now), r, t) = AckAlert(alerts[i], r, now)


\* ------------------------------------------------ visit records, one by one

\* C19: in every reachable state every completed appointment has exactly one
\* VisitRecord with its doctor, patient and date, and no doctor, patient and
\* date have more than one VisitRecord, when log_visit_by_id requests run one
\* at a time.
C19_OneVisitPerCompleted ==
    /\ \A i \in DOMAIN appointments :
          appointments[i].status = "completed" => VisitsFor(visits, appointments[i]) = 1
    /\ \A v \in BagToSet(visits) :
          VisitsFor(visits, [doctor |-> v.doctor, patient |-> v.patient,
                             date |-> v.visit_date]) <= 1

\* two completed appointments, each with its one VisitRecord
C19_Witness ==
    \E i, j \in DOMAIN appointments :
        /\ i # j
        /\ appointments[i].status = "completed"
        /\ appointments[j].status = "completed"
        /\ VisitsFor(visits, appointments[i]) = 1
        /\ VisitsFor(visits, appointments[j]) = 1
        /\ BagCardinality(visits) = 2


\* ------------------------------------------------ SOS requests interleaving

\* the requests of view `view` that have been answered
Answered(view) == {p \in Requests : reqs[p].pc = "done" /\ reqs[p].view = view}

\* C15: once a doctor's and a therapist's acknowledge_sos_alert for the same
\* alert have both been answered, however their loads and saves interleaved,
\* both flags are true and the status is acknowledged.
C15_InterleavedAcknowledgments ==
    \A p, q \in Answered("acknowledge_sos_alert") :
        (/\ role(reqs[p].user) = "doctor"
         /\ role(reqs[q].user) = "therapist"
         /\ reqs[p].id = reqs[q].id) =>
            LET a == alerts[reqs[p].id]
            IN  /\ a.acknowledged_by_doctor
                /\ a.acknowledged_by_therapist
                /\ a.status = "acknowledged"

\* C16: once a resolve_sos_alert and an acknowledge_sos_alert for the same
\* alert have both been answered, whichever saved last, the status is resolved
\* and resolved_at is set.
C16_InterleavedResolve ==
    \A p \in Answered("resolve_sos_alert"), q \in Answered("acknowledge_sos_alert") :
        reqs[p].id = reqs[q].id =>
            LET a == alerts[reqs[p].id]
            IN  a.status = "resolved" /\ a.resolved_at # NoTime


\* -------------------------------------------- visit logging, interleaved

\* C20: once two interleaved log_visit_by_id requests, for one appointment or
\* for two with the same doctor, patient and date, have both been answered, at
\* most one VisitRecord with that doctor, patient and date exists.
C20_InterleavedLogVisit ==
    \A p, q \in Answered("log_visit_by_id") :
        LET a == appointments[reqs[p].id]
            b == appointments[reqs[q].id]
        IN  (/\ p # q
             /\ a.doctor = b.doctor /\ a.patient = b.patient /\ a.date = b.date) =>
                VisitsFor(visits, a) <= 1


\* ------------------------------------------------- two-party conversation

\* C21: the conversation message_box returns to user A for a selected user B is
\* exactly the messages that are not deleted and were sent by A to B or by B to
\* A, in timestamp order; a message a user sent to themselves is never in it.
C21_TwoPartyConversation ==
    \A u \in Correspondents : \A sel \in Correspondents \ {u} :
        LET conv == Conversation(messages, u, sel)
        IN  /\ Ids(conv) = {i \in DOMAIN messages :
                              /\ ~messages[i].is_deleted
                              /\ \/ messages[i].sender = u /\ messages[i].receiver = sel
                                 \/ messages[i].sender = sel /\ messages[i].receiver = u}
            /\ \A k \in DOMAIN conv : messages[conv[k]].sender # messages[conv[k]].receiver
            /\ \A k, l \in DOMAIN conv : k < l => conv[k] < conv[l]


\* -------------------------------------------------- appointment ownership

\* C22: an appointment is created pending, with the requesting patient as its
\* patient, and after that confirm_appointment, cancel_appointment and
\* log_visit_by_id requested by anyone but its doctor (another doctor, a
\* patient, a therapist) leave the appointment and every VisitRecord unchanged.
C22_SingleWriter ==
    [][/\ \A i \in DOMAIN appointments :
            (appointments'[i] # appointments[i] \/ visits' # visits) =>
                \A u \in Users \ {appointments[i].doctor} :
                    /\ ~confirm_appointment(u, i)
                    /\ ~cancel_appointment(u, i)
                    /\ ~log_visit_by_id(u, i)
       /\ \A i \in DOMAIN appointments' \ DOMAIN appointments :
            LET a == appointments'[i]
            IN  /\ a.status = "pending"
                /\ role(a.patient) = "patient"
                /\ \/ \E f \in AppointmentForms : book_appointment(a.patient, f)
                   \/ \E f \in HomeAppointmentForms : patient_home(a.patient, f)
      ]_vars

\* another doctor's request for a confirmed appointment was answered not found
C22_Witness ==
    /\ resp = NotFound
    /\ Len(appointments) = MaxAppointments
    /\ \E i \in DOMAIN appointments : appointments[i].status = "confirmed"


\* ------------------------------------------------ SOS timestamps and status

\* C23: in every reachable state of the SOS requests, resolved_at is set exactly
\* when the status is resolved, acknowledged_at is set exactly when at least one
\* acknowledgment flag is true, and status acknowledged implies both flags.
C23_TimestampsAgree ==
    \A i \in DOMAIN alerts :
        LET a == alerts[i]
        IN  /\ (a.resolved_at # NoTime) <=> (a.status = "resolved")
            /\ (a.acknowledged_at # NoTime) <=>
                  (a.acknowledged_by_doctor \/ a.acknowledged_by_therapist)
            /\ a.status = "acknowledged" =>
                  (a.acknowledged_by_doctor /\ a.acknowledged_by_therapist)

====
